---------------------------- MODULE Spec2Model ----------------------------
(***************************************************************************)
(* Model of the SmartDietAgent inference-and-ranking engine                *)
(* (src/SmartDietAgent/agent.py, src/SmartDietAgent/knowledge_base.py).    *)
(*                                                                         *)
(* Representation of Python values:                                        *)
(*  - a str is a TLA+ string; its characters are read through CodePoints,  *)
(*    the sequence of its Unicode code points, which is what str ordering, *)
(*    str.lower and the regular expressions of the code work on;           *)
(*  - None in a string-valued field is the string None;                    *)
(*  - a number-valued field is a pair <<"num", n>>; None there is          *)
(*    <<"none", 0>>, the float nan is <<"nan", 0>> and a str that is no    *)
(*    number is <<"text", 0>>; weight is in kg, height in cm, and a BMI is *)
(*    held in hundredths (18.5 is 1850), so that 18.49 and 18.5 are both   *)
(*    integers;                                                            *)
(*  - a dict is a function; dict.get(k, d) is Get(d, k, default).          *)
(***************************************************************************)
EXTENDS Integers, Sequences, FiniteSets, TLC

(***************************************************************************)
(* Strings                                                                 *)
(***************************************************************************)
CodePoints ==
       ("Diabetic" :> <<68, 105, 97, 98, 101, 116, 105, 99>>)
    @@ ("Avoid sugar" :> <<65, 118, 111, 105, 100, 32, 115, 117, 103, 97, 114>>)
    @@ ("Include whole grains" :> <<73, 110, 99, 108, 117, 100, 101, 32, 119, 104, 111, 108, 101, 32, 103, 114, 97, 105, 110, 115>>)
    @@ ("Eat more vegetables" :> <<69, 97, 116, 32, 109, 111, 114, 101, 32, 118, 101, 103, 101, 116, 97, 98, 108, 101, 115>>)
    @@ ("Prefer low-glycemic index foods" :> <<80, 114, 101, 102, 101, 114, 32, 108, 111, 119, 45, 103, 108, 121, 99, 101, 109, 105, 99, 32, 105, 110, 100, 101, 120, 32, 102, 111, 111, 100, 115>>)
    @@ ("Distribute carbs evenly across meals" :> <<68, 105, 115, 116, 114, 105, 98, 117, 116, 101, 32, 99, 97, 114, 98, 115, 32, 101, 118, 101, 110, 108, 121, 32, 97, 99, 114, 111, 115, 115, 32, 109, 101, 97, 108, 115>>)
    @@ ("Underweight" :> <<85, 110, 100, 101, 114, 119, 101, 105, 103, 104, 116>>)
    @@ ("High protein diet" :> <<72, 105, 103, 104, 32, 112, 114, 111, 116, 101, 105, 110, 32, 100, 105, 101, 116>>)
    @@ ("Frequent meals" :> <<70, 114, 101, 113, 117, 101, 110, 116, 32, 109, 101, 97, 108, 115>>)
    @@ ("Include nuts and seeds" :> <<73, 110, 99, 108, 117, 100, 101, 32, 110, 117, 116, 115, 32, 97, 110, 100, 32, 115, 101, 101, 100, 115>>)
    @@ ("Add calorie-dense healthy fats (olive oil, nut butters)" :> <<65, 100, 100, 32, 99, 97, 108, 111, 114, 105, 101, 45, 100, 101, 110, 115, 101, 32, 104, 101, 97, 108, 116, 104, 121, 32, 102, 97, 116, 115, 32, 40, 111, 108, 105, 118, 101, 32, 111, 105, 108, 44, 32, 110, 117, 116, 32, 98, 117, 116, 116, 101, 114, 115, 41>>)
    @@ ("Overweight" :> <<79, 118, 101, 114, 119, 101, 105, 103, 104, 116>>)
    @@ ("Low-calorie diet" :> <<76, 111, 119, 45, 99, 97, 108, 111, 114, 105, 101, 32, 100, 105, 101, 116>>)
    @@ ("Exercise regularly" :> <<69, 120, 101, 114, 99, 105, 115, 101, 32, 114, 101, 103, 117, 108, 97, 114, 108, 121>>)
    @@ ("Avoid fried foods" :> <<65, 118, 111, 105, 100, 32, 102, 114, 105, 101, 100, 32, 102, 111, 111, 100, 115>>)
    @@ ("Prefer high-fiber, low-calorie density foods" :> <<80, 114, 101, 102, 101, 114, 32, 104, 105, 103, 104, 45, 102, 105, 98, 101, 114, 44, 32, 108, 111, 119, 45, 99, 97, 108, 111, 114, 105, 101, 32, 100, 101, 110, 115, 105, 116, 121, 32, 102, 111, 111, 100, 115>>)
    @@ ("Limit sugary beverages" :> <<76, 105, 109, 105, 116, 32, 115, 117, 103, 97, 114, 121, 32, 98, 101, 118, 101, 114, 97, 103, 101, 115>>)
    @@ ("Vegetarian" :> <<86, 101, 103, 101, 116, 97, 114, 105, 97, 110>>)
    @@ ("Avoid meat" :> <<65, 118, 111, 105, 100, 32, 109, 101, 97, 116>>)
    @@ ("Include pulses and legumes" :> <<73, 110, 99, 108, 117, 100, 101, 32, 112, 117, 108, 115, 101, 115, 32, 97, 110, 100, 32, 108, 101, 103, 117, 109, 101, 115>>)
    @@ ("Ensure B12 sources (fortified foods or supplements)" :> <<69, 110, 115, 117, 114, 101, 32, 66, 49, 50, 32, 115, 111, 117, 114, 99, 101, 115, 32, 40, 102, 111, 114, 116, 105, 102, 105, 101, 100, 32, 102, 111, 111, 100, 115, 32, 111, 114, 32, 115, 117, 112, 112, 108, 101, 109, 101, 110, 116, 115, 41>>)
    @@ ("NonVegetarian" :> <<78, 111, 110, 86, 101, 103, 101, 116, 97, 114, 105, 97, 110>>)
    @@ ("Prefer lean meats (chicken, turkey)" :> <<80, 114, 101, 102, 101, 114, 32, 108, 101, 97, 110, 32, 109, 101, 97, 116, 115, 32, 40, 99, 104, 105, 99, 107, 101, 110, 44, 32, 116, 117, 114, 107, 101, 121, 41>>)
    @@ ("Include fish rich in omega-3" :> <<73, 110, 99, 108, 117, 100, 101, 32, 102, 105, 115, 104, 32, 114, 105, 99, 104, 32, 105, 110, 32, 111, 109, 101, 103, 97, 45, 51>>)
    @@ ("Limit processed meats" :> <<76, 105, 109, 105, 116, 32, 112, 114, 111, 99, 101, 115, 115, 101, 100, 32, 109, 101, 97, 116, 115>>)
    @@ ("Balance plate with vegetables and whole grains" :> <<66, 97, 108, 97, 110, 99, 101, 32, 112, 108, 97, 116, 101, 32, 119, 105, 116, 104, 32, 118, 101, 103, 101, 116, 97, 98, 108, 101, 115, 32, 97, 110, 100, 32, 119, 104, 111, 108, 101, 32, 103, 114, 97, 105, 110, 115>>)
    @@ ("Hypertension" :> <<72, 121, 112, 101, 114, 116, 101, 110, 115, 105, 111, 110>>)
    @@ ("Low salt diet" :> <<76, 111, 119, 32, 115, 97, 108, 116, 32, 100, 105, 101, 116>>)
    @@ ("Avoid processed food" :> <<65, 118, 111, 105, 100, 32, 112, 114, 111, 99, 101, 115, 115, 101, 100, 32, 102, 111, 111, 100>>)
    @@ ("Include fruits and vegetables" :> <<73, 110, 99, 108, 117, 100, 101, 32, 102, 114, 117, 105, 116, 115, 32, 97, 110, 100, 32, 118, 101, 103, 101, 116, 97, 98, 108, 101, 115>>)
    @@ ("Prefer DASH-style diet" :> <<80, 114, 101, 102, 101, 114, 32, 68, 65, 83, 72, 45, 115, 116, 121, 108, 101, 32, 100, 105, 101, 116>>)
    @@ ("Limit alcohol" :> <<76, 105, 109, 105, 116, 32, 97, 108, 99, 111, 104, 111, 108>>)
    @@ ("Normal" :> <<78, 111, 114, 109, 97, 108>>)
    @@ ("Balanced diet" :> <<66, 97, 108, 97, 110, 99, 101, 100, 32, 100, 105, 101, 116>>)
    @@ ("Include fruits, vegetables, proteins, and carbs" :> <<73, 110, 99, 108, 117, 100, 101, 32, 102, 114, 117, 105, 116, 115, 44, 32, 118, 101, 103, 101, 116, 97, 98, 108, 101, 115, 44, 32, 112, 114, 111, 116, 101, 105, 110, 115, 44, 32, 97, 110, 100, 32, 99, 97, 114, 98, 115>>)
    @@ ("Stay hydrated" :> <<83, 116, 97, 121, 32, 104, 121, 100, 114, 97, 116, 101, 100>>)
    @@ ("Anemia" :> <<65, 110, 101, 109, 105, 97>>)
    @@ ("Increase iron-rich foods" :> <<73, 110, 99, 114, 101, 97, 115, 101, 32, 105, 114, 111, 110, 45, 114, 105, 99, 104, 32, 102, 111, 111, 100, 115>>)
    @@ ("Include vitamin C for iron absorption" :> <<73, 110, 99, 108, 117, 100, 101, 32, 118, 105, 116, 97, 109, 105, 110, 32, 67, 32, 102, 111, 114, 32, 105, 114, 111, 110, 32, 97, 98, 115, 111, 114, 112, 116, 105, 111, 110>>)
    @@ ("Consider leafy greens" :> <<67, 111, 110, 115, 105, 100, 101, 114, 32, 108, 101, 97, 102, 121, 32, 103, 114, 101, 101, 110, 115>>)
    @@ ("Prefer heme iron sources if non-vegetarian" :> <<80, 114, 101, 102, 101, 114, 32, 104, 101, 109, 101, 32, 105, 114, 111, 110, 32, 115, 111, 117, 114, 99, 101, 115, 32, 105, 102, 32, 110, 111, 110, 45, 118, 101, 103, 101, 116, 97, 114, 105, 97, 110>>)
    @@ ("HighCholesterol" :> <<72, 105, 103, 104, 67, 104, 111, 108, 101, 115, 116, 101, 114, 111, 108>>)
    @@ ("Prefer unsaturated fats" :> <<80, 114, 101, 102, 101, 114, 32, 117, 110, 115, 97, 116, 117, 114, 97, 116, 101, 100, 32, 102, 97, 116, 115>>)
    @@ ("Increase soluble fiber" :> <<73, 110, 99, 114, 101, 97, 115, 101, 32, 115, 111, 108, 117, 98, 108, 101, 32, 102, 105, 98, 101, 114>>)
    @@ ("Limit red meat" :> <<76, 105, 109, 105, 116, 32, 114, 101, 100, 32, 109, 101, 97, 116>>)
    @@ ("Avoid trans fats" :> <<65, 118, 111, 105, 100, 32, 116, 114, 97, 110, 115, 32, 102, 97, 116, 115>>)
    @@ ("Include plant sterols/stanols" :> <<73, 110, 99, 108, 117, 100, 101, 32, 112, 108, 97, 110, 116, 32, 115, 116, 101, 114, 111, 108, 115, 47, 115, 116, 97, 110, 111, 108, 115>>)
    @@ ("KidneyFriendly" :> <<75, 105, 100, 110, 101, 121, 70, 114, 105, 101, 110, 100, 108, 121>>)
    @@ ("Control protein intake" :> <<67, 111, 110, 116, 114, 111, 108, 32, 112, 114, 111, 116, 101, 105, 110, 32, 105, 110, 116, 97, 107, 101>>)
    @@ ("Limit sodium" :> <<76, 105, 109, 105, 116, 32, 115, 111, 100, 105, 117, 109>>)
    @@ ("Monitor potassium and phosphorus" :> <<77, 111, 110, 105, 116, 111, 114, 32, 112, 111, 116, 97, 115, 115, 105, 117, 109, 32, 97, 110, 100, 32, 112, 104, 111, 115, 112, 104, 111, 114, 117, 115>>)
    @@ ("Stay within fluid limits if prescribed" :> <<83, 116, 97, 121, 32, 119, 105, 116, 104, 105, 110, 32, 102, 108, 117, 105, 100, 32, 108, 105, 109, 105, 116, 115, 32, 105, 102, 32, 112, 114, 101, 115, 99, 114, 105, 98, 101, 100>>)
    @@ ("Keto" :> <<75, 101, 116, 111>>)
    @@ ("" :> <<>>)
    @@ ("idli" :> <<105, 100, 108, 105>>)
    @@ ("dosa" :> <<100, 111, 115, 97>>)
    @@ ("upma" :> <<117, 112, 109, 97>>)
    @@ ("poha" :> <<112, 111, 104, 97>>)
    @@ ("ragi" :> <<114, 97, 103, 105>>)
    @@ ("roti" :> <<114, 111, 116, 105>>)
    @@ ("chapati" :> <<99, 104, 97, 112, 97, 116, 105>>)
    @@ ("paratha" :> <<112, 97, 114, 97, 116, 104, 97>>)
    @@ ("bajra" :> <<98, 97, 106, 114, 97>>)
    @@ ("jowar" :> <<106, 111, 119, 97, 114>>)
    @@ ("khichdi" :> <<107, 104, 105, 99, 104, 100, 105>>)
    @@ ("dal" :> <<100, 97, 108>>)
    @@ ("rajma" :> <<114, 97, 106, 109, 97>>)
    @@ ("chole" :> <<99, 104, 111, 108, 101>>)
    @@ ("curd" :> <<99, 117, 114, 100>>)
    @@ ("yogurt" :> <<121, 111, 103, 117, 114, 116>>)
    @@ ("sambar" :> <<115, 97, 109, 98, 97, 114>>)
    @@ ("rasam" :> <<114, 97, 115, 97, 109>>)
    @@ ("paneer" :> <<112, 97, 110, 101, 101, 114>>)
    @@ ("palak" :> <<112, 97, 108, 97, 107>>)
    @@ ("bhindi" :> <<98, 104, 105, 110, 100, 105>>)
    @@ ("baingan" :> <<98, 97, 105, 110, 103, 97, 110>>)
    @@ ("sprout" :> <<115, 112, 114, 111, 117, 116>>)
    @@ ("oats" :> <<111, 97, 116, 115>>)
    @@ ("brown rice" :> <<98, 114, 111, 119, 110, 32, 114, 105, 99, 101>>)
    @@ ("millet" :> <<109, 105, 108, 108, 101, 116>>)
    @@ ("quinoa" :> <<113, 117, 105, 110, 111, 97>>)
    @@ ("salad" :> <<115, 97, 108, 97, 100>>)
    @@ ("soup" :> <<115, 111, 117, 112>>)
    @@ ("grilled chicken" :> <<103, 114, 105, 108, 108, 101, 100, 32, 99, 104, 105, 99, 107, 101, 110>>)
    @@ ("tandoori" :> <<116, 97, 110, 100, 111, 111, 114, 105>>)
    @@ ("fish" :> <<102, 105, 115, 104>>)
    @@ ("egg" :> <<101, 103, 103>>)
    @@ ("lentil" :> <<108, 101, 110, 116, 105, 108>>)
    @@ ("lentils" :> <<108, 101, 110, 116, 105, 108, 115>>)
    @@ ("whole wheat" :> <<119, 104, 111, 108, 101, 32, 119, 104, 101, 97, 116>>)
    @@ ("wholegrain" :> <<119, 104, 111, 108, 101, 103, 114, 97, 105, 110>>)
    @@ ("bread" :> <<98, 114, 101, 97, 100>>)
    @@ ("bagel" :> <<98, 97, 103, 101, 108>>)
    @@ ("ml" :> <<109, 108>>)
    @@ ("l" :> <<108>>)
    @@ ("cl" :> <<99, 108>>)
    @@ ("g" :> <<103>>)
    @@ ("kg" :> <<107, 103>>)
    @@ ("Dal" :> <<68, 97, 108>>)
    @@ ("123-456" :> <<49, 50, 51, 45, 52, 53, 54>>)
    @@ ("soda" :> <<115, 111, 100, 97>>)
    @@ ("Soda 1l" :> <<83, 111, 100, 97, 32, 49, 108>>)
    @@ ("pedal 2 kg" :> <<112, 101, 100, 97, 108, 32, 50, 32, 107, 103>>)
    @@ ("Add fiber" :> <<65, 100, 100, 32, 102, 105, 98, 101, 114>>)
    @@ ("None" :> <<78, 111, 110, 101>>)
    @@ ("name" :> <<110, 97, 109, 101>>)
    @@ ("vegetarian" :> <<118, 101, 103, 101, 116, 97, 114, 105, 97, 110>>)
    @@ ("diabetic_friendly" :> <<100, 105, 97, 98, 101, 116, 105, 99, 95, 102, 114, 105, 101, 110, 100, 108, 121>>)
    @@ ("hypertension_friendly" :> <<104, 121, 112, 101, 114, 116, 101, 110, 115, 105, 111, 110, 95, 102, 114, 105, 101, 110, 100, 108, 121>>)
    @@ ("weight_goal" :> <<119, 101, 105, 103, 104, 116, 95, 103, 111, 97, 108>>)
    @@ ("Name" :> <<78, 97, 109, 101>>)
    @@ ("Diabetic_Friendly" :> <<68, 105, 97, 98, 101, 116, 105, 99, 95, 70, 114, 105, 101, 110, 100, 108, 121>>)
    @@ ("Hypertension_Friendly" :> <<72, 121, 112, 101, 114, 116, 101, 110, 115, 105, 111, 110, 95, 70, 114, 105, 101, 110, 100, 108, 121>>)
    @@ ("Weight_Goal" :> <<87, 101, 105, 103, 104, 116, 95, 71, 111, 97, 108>>)
    @@ ("brand" :> <<98, 114, 97, 110, 100>>)
    @@ (" Dal " :> <<32, 68, 97, 108, 32>>)
    @@ ("true" :> <<116, 114, 117, 101>>)
    @@ ("0" :> <<48>>)
    @@ ("YES" :> <<89, 69, 83>>)
    @@ ("Loss " :> <<76, 111, 115, 115, 32>>)
    @@ ("no" :> <<110, 111>>)
    @@ ("1" :> <<49>>)
    @@ ("gain" :> <<103, 97, 105, 110>>)
    @@ ("Y" :> <<89>>)
    @@ ("Acme" :> <<65, 99, 109, 101>>)
    @@ ("loss" :> <<108, 111, 115, 115>>)
    @@ ("yes" :> <<121, 101, 115>>)
    @@ ("y" :> <<121>>)

rules_builtin ==
       ("Diabetic" :> <<
            "Avoid sugar",
            "Include whole grains",
            "Eat more vegetables",
            "Prefer low-glycemic index foods",
            "Distribute carbs evenly across meals" >>)
    @@ ("Underweight" :> <<
            "High protein diet",
            "Frequent meals",
            "Include nuts and seeds",
            "Add calorie-dense healthy fats (olive oil, nut butters)" >>)
    @@ ("Overweight" :> <<
            "Low-calorie diet",
            "Exercise regularly",
            "Avoid fried foods",
            "Prefer high-fiber, low-calorie density foods",
            "Limit sugary beverages" >>)
    @@ ("Vegetarian" :> <<
            "Avoid meat",
            "Include pulses and legumes",
            "Eat more vegetables",
            "Ensure B12 sources (fortified foods or supplements)" >>)
    @@ ("NonVegetarian" :> <<
            "Prefer lean meats (chicken, turkey)",
            "Include fish rich in omega-3",
            "Limit processed meats",
            "Balance plate with vegetables and whole grains" >>)
    @@ ("Hypertension" :> <<
            "Low salt diet",
            "Avoid processed food",
            "Include fruits and vegetables",
            "Prefer DASH-style diet",
            "Limit alcohol" >>)
    @@ ("Normal" :> <<
            "Balanced diet",
            "Include fruits, vegetables, proteins, and carbs",
            "Stay hydrated" >>)
    @@ ("Anemia" :> <<
            "Increase iron-rich foods",
            "Include vitamin C for iron absorption",
            "Consider leafy greens",
            "Prefer heme iron sources if non-vegetarian" >>)
    @@ ("HighCholesterol" :> <<
            "Prefer unsaturated fats",
            "Increase soluble fiber",
            "Limit red meat",
            "Avoid trans fats",
            "Include plant sterols/stanols" >>)
    @@ ("KidneyFriendly" :> <<
            "Control protein intake",
            "Limit sodium",
            "Monitor potassium and phosphorus",
            "Stay within fluid limits if prescribed" >>)

CATEGORY_PRIORITY ==
       ("Diabetic" :> 100)
    @@ ("Hypertension" :> 95)
    @@ ("HighCholesterol" :> 90)
    @@ ("KidneyFriendly" :> 85)
    @@ ("Overweight" :> 80)
    @@ ("Underweight" :> 80)
    @@ ("Anemia" :> 75)
    @@ ("Vegetarian" :> 60)
    @@ ("NonVegetarian" :> 60)
    @@ ("Normal" :> 50)

staple_keywords ==
    << "idli", "dosa", "upma", "poha", "ragi", "roti", "chapati", "paratha", "bajra", "jowar", "khichdi", "dal", "rajma", "chole", "curd", "yogurt", "sambar", "rasam", "paneer", "palak", "bhindi", "baingan", "sprout", "oats", "brown rice", "millet", "quinoa", "salad", "soup", "grilled chicken", "tandoori", "fish", "egg", "lentil", "lentils", "whole wheat", "wholegrain", "bread", "bagel" >>

(***************************************************************************)
(* Python values                                                           *)
(***************************************************************************)
\* None in a string-valued field.
None == "None"

\* None in a number-valued field.
NoneNum == <<"none", 0>>

\* The number n in a number-valued field.
Num(n) == <<"num", n>>

IsNum(x) == x[1] = "num"

\* A str that float() rejects, such as "abc", in a number-valued field.
Text == <<"text", 0>>

\* The float nan (float("nan"), which the front ends' float() accepts).
NaN == <<"nan", 0>>

\* Whether float(x) returns: it raises on None and on Text.
Floatable(x) == IsNum(x) \/ x = NaN

\* x <= 0 on floats; every comparison with nan is false.
LeZero(x) == IsNum(x) /\ x[2] <= 0

\* dict.get(k, default)
Get(d, k, default) == IF k \in DOMAIN d THEN d[k] ELSE default

\* Truth value of a string-or-None: None and "" are falsy.
TruthyStr(s) == s # None /\ s # ""

\* Truth value of a number-valued field: None and 0 are falsy; nan and a
\* non-empty str are truthy.
TruthyNum(x) == x = Text \/ x = NaN \/ (IsNum(x) /\ x[2] # 0)

Range(f) == {f[i] : i \in DOMAIN f}

\* Order of two code point sequences, as Python orders two str: by the first
\* position where they differ, a proper prefix first.
RECURSIVE LexLessFrom(_, _, _)
LexLessFrom(a, b, i) ==
    IF i > Len(a) THEN i <= Len(b)
    ELSE IF i > Len(b) THEN FALSE
    ELSE IF a[i] # b[i] THEN a[i] < b[i]
    ELSE LexLessFrom(a, b, i + 1)

LexLess(a, b) == LexLessFrom(a, b, 1)

StrLess(s, t) == LexLess(CodePoints[s], CodePoints[t])

\* sorted(set(xs)) for a set S of str.
RECURSIVE SortedSet(_)
SortedSet(S) ==
    IF S = {} THEN <<>>
    ELSE LET m == CHOOSE x \in S : \A y \in S \ {x} : StrLess(x, y)
         IN  <<m>> \o SortedSet(S \ {m})

\* Order of two sort keys (n, str), as Python orders two tuples.
KeyLess(k1, k2) ==
    \/ k1[1] < k2[1]
    \/ k1[1] = k2[1] /\ LexLess(k1[2], k2[2])

\* sorted(xs, key=...): the indices of xs in sorted order.  The sort is
\* stable: of two elements with equal keys the earlier one stays first.
RECURSIVE InsertIndex(_, _, _)
InsertIndex(done, i, keys) ==
    IF done = <<>> THEN <<i>>
    ELSE IF KeyLess(keys[i], keys[Head(done)]) THEN <<i>> \o done
    ELSE <<Head(done)>> \o InsertIndex(Tail(done), i, keys)

RECURSIVE SortedIndices(_, _)
SortedIndices(keys, n) ==
    IF n = 0 THEN <<>>
    ELSE InsertIndex(SortedIndices(keys, n - 1), n, keys)

\* xs[:limit] for a Python int limit.
Slice(xs, n) ==
    LET stop == IF n >= 0 THEN (IF n < Len(xs) THEN n ELSE Len(xs))
                ELSE (IF Len(xs) + n > 0 THEN Len(xs) + n ELSE 0)
    IN  SubSeq(xs, 1, stop)

(***************************************************************************)
(* BMI utilities                                                           *)
(***************************************************************************)
\* round(n / d) for n >= 0, d > 0.  On an exact tie the Python quotient is a
\* binary float and round() sees its error; for the heights of HeightsCm
\* the float quotient of a tie is exact and round() goes to the even
\* neighbour, as here.
RoundDiv(n, d) ==
    LET q == n \div d
        r == n % d
    IN  IF 2 * r > d THEN q + 1
        ELSE IF 2 * r < d THEN q
        ELSE IF q % 2 = 0 THEN q ELSE q + 1

\* A compute_bmi that cuts the quotient off after one decimal.
compute_bmi_truncating(weight_kg, height_cm) ==
    IF ~Floatable(weight_kg) \/ ~Floatable(height_cm) THEN NoneNum
    ELSE IF LeZero(height_cm) \/ LeZero(weight_kg) THEN NoneNum
    ELSE IF weight_kg = NaN \/ height_cm = NaN THEN NaN
    ELSE Num(10 * ((100000 * weight_kg[2]) \div (height_cm[2] * height_cm[2])))

\* compute_bmi: None when float() raises (None or Text input) or an input
\* is <= 0; else weight / metres^2 rounded to one decimal, in hundredths.
\* nan passes both guards (nan <= 0 is false) and the quotient, and
\* round(nan, 1), is nan.
compute_bmi(weight_kg, height_cm) ==
    IF ~Floatable(weight_kg) \/ ~Floatable(height_cm) THEN NoneNum
    ELSE IF LeZero(height_cm) \/ LeZero(weight_kg) THEN NoneNum
    ELSE IF weight_kg = NaN \/ height_cm = NaN THEN NaN
    ELSE Num(10 * RoundDiv(100000 * weight_kg[2], height_cm[2] * height_cm[2]))

\* An infer_weight_status_from_bmi whose bands include their upper bound.
infer_weight_status_le(bmi) ==
    IF bmi = NoneNum THEN None
    ELSE IF IsNum(bmi) /\ bmi[2] <= 1850 THEN "Underweight"
    ELSE IF IsNum(bmi) /\ bmi[2] <= 2500 THEN "Normal"
    ELSE "Overweight"

\* infer_weight_status_from_bmi, bmi in hundredths.  nan is not None and
\* is below neither threshold, so it falls through to the last return.
infer_weight_status_from_bmi(bmi) ==
    IF bmi = NoneNum THEN None
    ELSE IF IsNum(bmi) /\ bmi[2] < 1850 THEN "Underweight"
    ELSE IF IsNum(bmi) /\ bmi[2] < 2500 THEN "Normal"
    ELSE "Overweight"

(***************************************************************************)
(* Bounds and input sets                                                   *)
(***************************************************************************)
\* Inference calls made on one record.
MaxCalls == 2

\* Largest limit handed to rank_suggestions (the front end uses 6).
MaxLimit == 6

\* Largest BMI handed to infer_weight_status_from_bmi, in hundredths.
MaxBmiX100 == 3000

\* Largest weight handed to compute_bmi directly, in kg.
MaxWeightKg == 120

\* Health conditions of a record; "Keto" is no key of the rule catalog.
HealthValues == {None, "Diabetic", "Hypertension", "Normal", "Keto"}

WeightStatusValues == {None, "", "Underweight", "Normal", "Overweight"}

DietValues == {None, "Vegetarian", "NonVegetarian"}

WeightsKg == {0, 50, 74, 81, 100}

HeightsCm == {0, 180, 200}

\* The records a caller can build: every field may be missing.
Field(k, vals) == {<<>>} \cup {(k :> v) : v \in vals}

UserProfiles ==
    {hc @@ ws @@ dp @@ w @@ h :
        hc \in Field("health_condition", HealthValues),
        ws \in {("weight_status" :> v) : v \in WeightStatusValues},
        dp \in {("diet_preference" :> v) : v \in DietValues},
        w \in Field("weight_kg", {Num(n) : n \in WeightsKg}),
        h \in Field("height_cm", {Num(n) : n \in HeightsCm})}

Limits == {NoneNum} \cup {Num(n) : n \in -1 .. MaxLimit}

(***************************************************************************)
(* State                                                                   *)
(***************************************************************************)
VARIABLES
    user_profile,   \* SmartDietAgent.user_profile, the caller's record
    rules,          \* knowledge_base.rules, the rule catalog
    suggestions,    \* the caller's suggestions, as last returned by inference
    explanations,   \* the caller's explanations, as last returned by inference
    ranked,         \* the list last returned by rank_suggestions
    limit,          \* the limit of that call
    writes,         \* how often inference has written to user_profile
    calls,          \* inference calls made on user_profile
    op,             \* the operation that ran last
    arg_bmi,        \* argument of a direct infer_weight_status_from_bmi call
    arg_weight,     \* arguments of a direct compute_bmi call
    arg_height,
    ret_bmi,        \* what compute_bmi returned
    ret_status,     \* what infer_weight_status_from_bmi returned
    foods_dataset,  \* SmartDietAgent.foods_dataset, the loaded food catalog
    max_items,      \* the max_items of the last recommend_foods call
    recommended,    \* the list last returned by recommend_foods
    overlay,        \* the document last handed to load_additional_rules
    merges,         \* load_additional_rules calls made
    same_merges,    \* how many of the latest calls had that same document
    csv_file        \* the file handed to load_foods_csv

vars == <<user_profile, rules, suggestions, explanations, ranked, limit,
          writes, calls, op, arg_bmi, arg_weight, arg_height, ret_bmi,
          ret_status, foods_dataset, max_items, recommended, overlay,
          merges, same_merges, csv_file>>

inference_vars == <<user_profile, rules, suggestions, explanations, ranked,
                    limit, writes, calls>>

bmi_vars == <<arg_bmi, arg_weight, arg_height, ret_bmi, ret_status>>

food_vars == <<foods_dataset, max_items, recommended>>

overlay_vars == <<overlay, merges, same_merges>>

(***************************************************************************)
(* Inference engine                                                        *)
(***************************************************************************)
\* Lines 86-90: the BMI of the record when weight_status is falsy and
\* weight and height are both truthy, else None.
RecordBmi(up) ==
    LET weight == Get(up, "weight_kg", NoneNum)
        height == Get(up, "height_cm", NoneNum)
    IN  IF TruthyNum(weight) /\ TruthyNum(height)
        THEN compute_bmi(weight, height) ELSE NoneNum

\* A BMI branch that does not look at the weight_status already there.
BackFillsAlways(up) ==
    TruthyStr(infer_weight_status_from_bmi(RecordBmi(up)))

\* Whether the BMI branch writes weight_status and bmi to the record.
BackFills(up) ==
    /\ ~TruthyStr(Get(up, "weight_status", None))
    /\ TruthyStr(infer_weight_status_from_bmi(RecordBmi(up)))

\* The record after the BMI branch of an inference call.
BackFilled(up) ==
    IF BackFills(up)
    THEN [k \in DOMAIN up \cup {"weight_status", "bmi"} |->
            IF k = "weight_status"
            THEN infer_weight_status_from_bmi(RecordBmi(up))
            ELSE IF k = "bmi" THEN RecordBmi(up)
            ELSE up[k]]
    ELSE up

\* The three category values the rules are looked up with, in lookup order:
\* the local variables condition, weight_status, diet_pref.
Categories(up) ==
    << Get(up, "health_condition", "Normal"),
       Get(BackFilled(up), "weight_status", None),
       Get(up, "diet_preference", None) >>

\* The categories whose rules are applied.
Applied(up, rs) == {c \in Range(Categories(up)) : c \in DOMAIN rs}

\* The working list as a set: every rule of every applied category.
Working(up, rs) == UNION {Range(rs[c]) : c \in Applied(up, rs)}

\* A source_map that keeps only the first category a suggestion came from.
SourceMapFirstOnly(up, rs, s) ==
    LET cats == Categories(up)
        first == CHOOSE i \in 1 .. 3 :
                    /\ cats[i] \in DOMAIN rs /\ s \in Range(rs[cats[i]])
                    /\ \A j \in 1 .. (i - 1) :
                          ~(cats[j] \in DOMAIN rs /\ s \in Range(rs[cats[j]]))
    IN  {cats[first]}

\* source_map[s]
SourceMap(up, rs, s) == {c \in Applied(up, rs) : s \in Range(rs[c])}

\* The suggestions both inference methods return.
InferredSuggestions(up, rs) == SortedSet(Working(up, rs))

\* The explanations infer_diet_with_explanations returns.
InferredExplanations(up, rs) ==
    [s \in Working(up, rs) |-> SortedSet(SourceMap(up, rs, s))]

(***************************************************************************)
(* Ranker                                                                  *)
(***************************************************************************)
RECURSIVE MaxOf(_)
MaxOf(S) ==
    IF S = {} THEN 0
    ELSE LET x == CHOOSE y \in S : TRUE
             m == MaxOf(S \ {x})
         IN  IF x > m THEN x ELSE m

\* score(s) of rank_suggestions.
RankScore(s, expl) ==
    LET cats == IF s \in DOMAIN expl THEN Range(expl[s]) ELSE {}
    IN  MaxOf({Get(CATEGORY_PRIORITY, c, 0) : c \in cats})

\* A sort key that ranks low priorities first.
RankKeyAscending(s, expl) == <<RankScore(s, expl), CodePoints[s]>>

RankKey(s, expl) == <<0 - RankScore(s, expl), CodePoints[s]>>

\* ranked of rank_suggestions: the whole order.
RankedFull(sugs, expl) ==
    LET keys == [i \in 1 .. Len(sugs) |-> RankKey(sugs[i], expl)]
        order == SortedIndices(keys, Len(sugs))
    IN  [i \in 1 .. Len(sugs) |-> sugs[order[i]]]

\* Lines 121-123: ranked[:limit] when a limit is given.
Limited(full, lim) == IF IsNum(lim) THEN Slice(full, lim[2]) ELSE full

rank_suggestions(sugs, expl, lim) == Limited(RankedFull(sugs, expl), lim)

(***************************************************************************)
(* Operations on one record                                                *)
(***************************************************************************)
IdleBmi ==
    /\ arg_bmi = NoneNum
    /\ arg_weight = NoneNum
    /\ arg_height = NoneNum
    /\ ret_bmi = NoneNum
    /\ ret_status = None

\* max_items when the caller gives none.
DefaultMaxItems == 6

IdleFoods ==
    /\ foods_dataset = <<>>
    /\ max_items = DefaultMaxItems
    /\ recommended = <<>>

\* No overlay document: load_additional_rules() without a path.
NoOverlay == [kind |-> "nopath", items |-> <<>>]

IdleOverlay ==
    /\ overlay = NoOverlay
    /\ merges = 0
    /\ same_merges = 0

\* A path at which there is no file.
MissingFile == [exists |-> FALSE, header |-> <<>>, rows |-> <<>>]

IdleCsv == csv_file = MissingFile

IdleInference ==
    /\ user_profile = <<>>
    /\ rules = rules_builtin
    /\ suggestions = <<>>
    /\ explanations = <<>>
    /\ ranked = <<>>
    /\ limit = NoneNum
    /\ writes = 0
    /\ calls = 0

Init ==
    /\ user_profile \in UserProfiles
    /\ rules = rules_builtin
    /\ suggestions = <<>>
    /\ explanations = <<>>
    /\ ranked = <<>>
    /\ limit = NoneNum
    /\ writes = 0
    /\ calls = 0
    /\ op = "init"
    /\ IdleBmi
    /\ IdleFoods
    /\ IdleOverlay
    /\ IdleCsv

\* The part every inference call shares: lines 49-59 and 85-94.
Infer ==
    /\ op # "rank_suggestions"
    /\ calls < MaxCalls
    /\ calls' = calls + 1
    /\ user_profile' = BackFilled(user_profile)
    /\ writes' = IF BackFills(user_profile) THEN writes + 1 ELSE writes
    /\ suggestions' = InferredSuggestions(user_profile, rules)

InferDiet ==
    /\ Infer
    /\ op' = "infer_diet"
    /\ UNCHANGED <<rules, explanations, ranked, limit>>
    /\ UNCHANGED bmi_vars
    /\ UNCHANGED food_vars
    /\ UNCHANGED overlay_vars
    /\ UNCHANGED csv_file

InferDietWithExplanations ==
    /\ Infer
    /\ explanations' = InferredExplanations(user_profile, rules)
    /\ op' = "infer_diet_with_explanations"
    /\ UNCHANGED <<rules, ranked, limit>>
    /\ UNCHANGED bmi_vars
    /\ UNCHANGED food_vars
    /\ UNCHANGED overlay_vars
    /\ UNCHANGED csv_file

RankSuggestions ==
    /\ op \in {"infer_diet", "infer_diet_with_explanations"}
    /\ LET full == RankedFull(suggestions, explanations)
       IN  \E lim \in Limits :
               /\ ranked' = Limited(full, lim)
               /\ limit' = lim
    /\ op' = "rank_suggestions"
    /\ UNCHANGED <<user_profile, rules, suggestions, explanations,
                   writes, calls>>
    /\ UNCHANGED bmi_vars
    /\ UNCHANGED food_vars
    /\ UNCHANGED overlay_vars
    /\ UNCHANGED csv_file

Next ==
    \/ InferDiet
    \/ InferDietWithExplanations
    \/ RankSuggestions

Spec == Init /\ [][Next]_vars

(***************************************************************************)
(* Direct calls of the BMI utilities                                       *)
(***************************************************************************)
BmiArgs == {NoneNum} \cup {Num(n) : n \in 0 .. MaxBmiX100}

InitBmi ==
    /\ IdleInference
    /\ IdleFoods
    /\ IdleOverlay
    /\ IdleCsv
    /\ op = "init"
    /\ ret_bmi = NoneNum
    /\ ret_status = None
    /\ \/ /\ arg_bmi \in BmiArgs
          /\ arg_weight = NoneNum
          /\ arg_height = NoneNum
       \/ /\ arg_bmi = NoneNum
          /\ arg_weight \in {NoneNum} \cup {Num(n) : n \in 0 .. MaxWeightKg}
          /\ arg_height \in {NoneNum} \cup {Num(n) : n \in HeightsCm}

CallInferWeightStatus ==
    /\ op = "init"
    /\ ret_status' = infer_weight_status_from_bmi(arg_bmi)
    /\ op' = "infer_weight_status_from_bmi"
    /\ UNCHANGED <<arg_bmi, arg_weight, arg_height, ret_bmi>>
    /\ UNCHANGED inference_vars
    /\ UNCHANGED food_vars
    /\ UNCHANGED overlay_vars
    /\ UNCHANGED csv_file

CallComputeBmi ==
    /\ op = "init"
    /\ ret_bmi' = compute_bmi(arg_weight, arg_height)
    /\ op' = "compute_bmi"
    /\ UNCHANGED <<arg_bmi, arg_weight, arg_height, ret_status>>
    /\ UNCHANGED inference_vars
    /\ UNCHANGED food_vars
    /\ UNCHANGED overlay_vars
    /\ UNCHANGED csv_file

NextBmi ==
    \/ CallInferWeightStatus
    \/ CallComputeBmi

SpecBmi == InitBmi /\ [][NextBmi]_vars



(***************************************************************************)
(* Food recommender                                                        *)
(***************************************************************************)
IsSpace(c) == c = 32 \/ (9 <= c /\ c <= 13)

IsDigit(c) == 48 <= c /\ c <= 57

\* \w of the regular expressions: a letter, a digit or "_".
IsWord(c) ==
    \/ IsDigit(c)
    \/ 65 <= c /\ c <= 90
    \/ 97 <= c /\ c <= 122
    \/ c = 95

\* str.lower, on code points.
LowerCode(c) == IF 65 <= c /\ c <= 90 THEN c + 32 ELSE c

Lower(cs) == [i \in 1 .. Len(cs) |-> LowerCode(cs[i])]

\* str.strip, on code points.
RECURSIVE StripLeft(_)
StripLeft(cs) ==
    IF cs # <<>> /\ IsSpace(Head(cs)) THEN StripLeft(Tail(cs)) ELSE cs

RECURSIVE StripRight(_)
StripRight(cs) ==
    IF cs # <<>> /\ IsSpace(cs[Len(cs)])
    THEN StripRight(SubSeq(cs, 1, Len(cs) - 1)) ELSE cs

Strip(cs) == StripRight(StripLeft(cs))

\* needle occurs in hay at offset i, letter case ignored.
OccursAt(hay, needle, i) ==
    /\ i + Len(needle) <= Len(hay)
    /\ \A j \in 1 .. Len(needle) :
           LowerCode(hay[i + j]) = LowerCode(needle[j])

\* staple_regex.search(name): some staple keyword occurs in the name.
staple_search(cs) ==
    \E k \in 1 .. Len(staple_keywords) :
        \E i \in 0 .. Len(cs) :
            OccursAt(cs, CodePoints[staple_keywords[k]], i)

\* A barcode pattern of digits and whitespace only.
barcode_match_digits_only(cs) ==
    /\ cs # <<>>
    /\ \A i \in 1 .. Len(cs) : IsDigit(cs[i]) \/ IsSpace(cs[i])

\* barcode_like.match(name): ^[0-9\s\-()]+$
barcode_match(cs) ==
    /\ cs # <<>>
    /\ \A i \in 1 .. Len(cs) :
           IsDigit(cs[i]) \/ IsSpace(cs[i]) \/ cs[i] \in {45, 40, 41}

size_units == <<"ml", "l", "cl", "g", "kg">>

\* size_like.search(name): \b(\d+\s?(ml|l|cl|g|kg))\b with IGNORECASE.  A
\* match starts at a digit not preceded by a word character, takes digits
\* up to position q, at most one whitespace, a unit, and ends where no
\* word character follows.
size_search(cs) ==
    \E p \in 1 .. Len(cs) : \E q \in p .. Len(cs) :
        /\ p = 1 \/ ~IsWord(cs[p - 1])
        /\ \A i \in p .. q : IsDigit(cs[i])
        /\ \E sp \in {0, 1} : \E u \in 1 .. Len(size_units) :
               LET unit == CodePoints[size_units[u]]
                   last == q + sp + Len(unit)
               IN  /\ sp = 1 => (q + 1 <= Len(cs) /\ IsSpace(cs[q + 1]))
                   /\ OccursAt(cs, unit, q + sp)
                   /\ last = Len(cs) \/ ~IsWord(cs[last + 1])

\* Lines 137-148: condition, diet_pref and goal of a recommend_foods call.
FoodCondition(up) ==
    IF TruthyStr(Get(up, "health_condition", None))
    THEN up["health_condition"] ELSE "Normal"

FoodDietPref(up) ==
    IF TruthyStr(Get(up, "diet_preference", None))
    THEN up["diet_preference"] ELSE "Normal"

FoodGoal(up) ==
    LET weight_status == Get(up, "weight_status", None)
    IN  IF weight_status = "Overweight" THEN "loss"
        ELSE IF weight_status = "Underweight" THEN "gain"
        ELSE "maintain"

Bonus(cond, n) == IF cond THEN n ELSE 0

\* The names of the foods of the catalogs.
FoodNames == {"", "Dal", "dal", "123-456", "soda", "Soda 1l", "pedal 2 kg"}

\* Lines 159 and 171-176: what the three patterns find in the stripped name,
\* for each name of FoodNames.
StapleNames == {n \in FoodNames : staple_search(Strip(CodePoints[n]))}

BarcodeNames == {n \in FoodNames : barcode_match(Strip(CodePoints[n]))}

SizedNames == {n \in FoodNames : size_search(Strip(CodePoints[n]))}

\* Lines 170-177: the part of score(food) that only reads the name.
NameScore(n) ==
    Bonus(n \in StapleNames, 3) - Bonus(n \in BarcodeNames, 5)
        - Bonus(n \in SizedNames, 2)

\* score(food) of recommend_foods.
FoodScore(up, food) ==
    Bonus(FoodDietPref(up) = "Vegetarian" /\ food.vegetarian, 2)
    + Bonus(FoodCondition(up) = "Diabetic" /\ food.diabetic_friendly, 3)
    + Bonus(FoodCondition(up) = "Hypertension"
                /\ food.hypertension_friendly, 3)
    + Bonus(food.weight_goal = FoodGoal(up), 2)
    + NameScore(food.name)

\* Line 180: the foods sorted by (-score, name).
RankedFoods(up, foods) ==
    LET keys == [i \in 1 .. Len(foods) |->
                    <<0 - FoodScore(up, foods[i]), CodePoints[foods[i].name]>>]
        order == SortedIndices(keys, Len(foods))
    IN  [i \in 1 .. Len(foods) |-> foods[order[i]]]

\* Candidate names without the fallback to all foods.
CandidateNamesNoFallback(up, foods) ==
    LET rf == RankedFoods(up, foods)
        positive == SelectSeq(rf, LAMBDA f : FoodScore(up, f) > 0)
    IN  [i \in 1 .. Len(positive) |-> positive[i].name]

\* Lines 181-184: the names of the foods scoring > 0, or of all foods when
\* there are none.
CandidateNames(up, foods) ==
    LET rf == RankedFoods(up, foods)
        positive == SelectSeq(rf, LAMBDA f : FoodScore(up, f) > 0)
        chosen == IF positive = <<>> THEN rf ELSE positive
    IN  [i \in 1 .. Len(chosen) |-> chosen[i].name]

\* A loop that remembers the names as they are, not lowered.
RECURSIVE DedupeCaseSensitive(_, _, _, _, _)
DedupeCaseSensitive(names, i, seen, result, maxn) ==
    IF i > Len(names) THEN result
    ELSE IF names[i] = "" THEN
        DedupeCaseSensitive(names, i + 1, seen, result, maxn)
    ELSE LET ln == CodePoints[names[i]]
         IN  IF ln \in seen
             THEN DedupeCaseSensitive(names, i + 1, seen, result, maxn)
             ELSE IF Len(result) + 1 >= maxn THEN Append(result, names[i])
             ELSE DedupeCaseSensitive(names, i + 1, seen \cup {ln},
                                      Append(result, names[i]), maxn)

\* Lines 186-197: the loop over names from position i on, with the lowered
\* names seen and the result so far.
RECURSIVE Dedupe(_, _, _, _, _)
Dedupe(names, i, seen, result, maxn) ==
    IF i > Len(names) THEN result
    ELSE IF names[i] = "" THEN Dedupe(names, i + 1, seen, result, maxn)
    ELSE LET ln == Lower(CodePoints[names[i]])
         IN  IF ln \in seen THEN Dedupe(names, i + 1, seen, result, maxn)
             ELSE IF Len(result) + 1 >= maxn THEN Append(result, names[i])
             ELSE Dedupe(names, i + 1, seen \cup {ln},
                         Append(result, names[i]), maxn)

recommend_foods(up, foods, maxn) ==
    IF foods = <<>> THEN <<>>
    ELSE Dedupe(CandidateNames(up, foods), 1, {}, <<>>, maxn)

(***************************************************************************)
(* Calls of recommend_foods                                                *)
(***************************************************************************)
\* Foods of a catalog.
MaxFoods == 2

\* Largest max_items below the default.
MaxItems == 2

\* The rows load_foods_csv can produce over FoodNames.
AllFoods ==
    [name : FoodNames, vegetarian : BOOLEAN, diabetic_friendly : BOOLEAN,
     hypertension_friendly : BOOLEAN,
     weight_goal : {"loss", "gain", "maintain"}]

Food(n, v, d, h, g) ==
    [name |-> n, vegetarian |-> v, diabetic_friendly |-> d,
     hypertension_friendly |-> h, weight_goal |-> g]

\* The foods a catalog's later rows are taken from.
FoodPool ==
    { Food("dal", FALSE, FALSE, FALSE, "maintain"),
      Food("Dal", TRUE, TRUE, FALSE, "loss"),
      Food("soda", TRUE, FALSE, TRUE, "gain"),
      Food("Soda 1l", FALSE, TRUE, TRUE, "loss") }

RECURSIVE SeqsUpTo(_, _)
SeqsUpTo(S, n) ==
    IF n = 0 THEN {<<>>}
    ELSE LET shorter == SeqsUpTo(S, n - 1)
         IN  shorter \cup {Append(q, x) : q \in shorter, x \in S}

\* The catalogs: empty, or any first row followed by rows of FoodPool.
Catalogs ==
    {<<>>} \cup {<<f>> \o rest : f \in AllFoods,
                                rest \in SeqsUpTo(FoodPool, MaxFoods - 1)}

FoodProfiles ==
    {("health_condition" :> hc) @@ ("weight_status" :> ws)
        @@ ("diet_preference" :> dp) :
        hc \in {None, "Diabetic", "Hypertension"},
        ws \in {None, "Overweight", "Underweight"},
        dp \in {None, "Vegetarian"}}

MaxItemsValues == (0 .. MaxItems) \cup {DefaultMaxItems}

InitFoods ==
    /\ user_profile \in FoodProfiles
    /\ foods_dataset \in Catalogs
    /\ max_items = DefaultMaxItems
    /\ recommended = <<>>
    /\ rules = rules_builtin
    /\ suggestions = <<>>
    /\ explanations = <<>>
    /\ ranked = <<>>
    /\ limit = NoneNum
    /\ writes = 0
    /\ calls = 0
    /\ op = "init"
    /\ IdleBmi
    /\ IdleOverlay
    /\ IdleCsv

RecommendFoods ==
    /\ op = "init"
    /\ \E m \in MaxItemsValues :
           /\ max_items' = m
           /\ recommended' = recommend_foods(user_profile, foods_dataset, m)
    /\ op' = "recommend_foods"
    /\ UNCHANGED foods_dataset
    /\ UNCHANGED inference_vars
    /\ UNCHANGED bmi_vars
    /\ UNCHANGED overlay_vars
    /\ UNCHANGED csv_file

NextFoods == RecommendFoods

SpecFoods == InitFoods /\ [][NextFoods]_vars

(***************************************************************************)
(* Rule overlay (knowledge_base.load_additional_rules)                     *)
(***************************************************************************)
\* Merges made into one catalog.
MaxMerges == 2

\* An element of a JSON list: a string, or a JSON object (a dict, which a
\* set cannot hold).
Str(s) == <<"str", s>>

JsonObject == <<"object", "">>

\* A list of strings: one is in the built-in "Diabetic" rules, one is new
\* and comes twice.
ValidList ==
    [list |-> TRUE,
     elems |-> <<Str("Avoid sugar"), Str("Add fiber"), Str("Add fiber")>>]

ShortList == [list |-> TRUE, elems |-> <<Str("Eat more vegetables")>>]

\* A value that is not a list (a string, a number, an object).
NotAList == [list |-> FALSE, elems |-> <<>>]

\* A list one of whose elements is a JSON object.
ListWithObject == [list |-> TRUE, elems |-> <<Str("Add fiber"), JsonObject>>]

OverlayValues == {ValidList, ShortList, NotAList, ListWithObject}

\* "Keto" is no key of the built-in catalog.
OverlayKeys == {"Diabetic", "Keto"}

\* The key/value pairs of a JSON object in document order, keys distinct.
OverlayItems ==
    {it \in SeqsUpTo(OverlayKeys \X OverlayValues, Cardinality(OverlayKeys)) :
        \A i, j \in DOMAIN it : it[i][1] = it[j][1] => i = j}

\* What json_path can lead to: no path given (line 92), no file at the path
\* (line 95), a file json.load rejects (line 97), a document that is no
\* object (line 98), an object.
Overlays ==
    {[kind |-> k, items |-> <<>>] :
        k \in {"nopath", "nofile", "malformed", "notdict"}}
    \cup {[kind |-> "dict", items |-> it] : it \in OverlayItems}

\* set.union(values) raises TypeError on an element that is not hashable.
Hashable(e) == e[1] = "str"

\* A merge that keeps only the overlay's list.
MergedListReplacing(existing, values) ==
    SortedSet({e[2] : e \in Range(values)})

\* Lines 102-103: sorted(set(existing).union(values)).
MergedList(existing, values) ==
    SortedSet(Range(existing) \cup {e[2] : e \in Range(values)})

\* Lines 99-104, from the i-th key on.  A value that is no list is passed
\* over (line 101); the TypeError of line 103 leaves the loop and is
\* swallowed by line 105, so the keys after it are not looked at.
RECURSIVE MergeItems(_, _, _)
MergeItems(rs, items, i) ==
    IF i > Len(items) THEN rs
    ELSE LET key == items[i][1]
             values == items[i][2]
         IN  IF ~values.list THEN MergeItems(rs, items, i + 1)
             ELSE IF \E e \in Range(values.elems) : ~Hashable(e) THEN rs
             ELSE MergeItems(
                      [k \in DOMAIN rs \cup {key} |->
                          IF k = key
                          THEN MergedList(Get(rs, key, <<>>), values.elems)
                          ELSE rs[k]],
                      items, i + 1)

\* load_additional_rules: the catalog after the call.
load_additional_rules(rs, doc) ==
    IF doc.kind # "dict" THEN rs ELSE MergeItems(rs, doc.items, 1)

InitOverlay ==
    /\ IdleInference
    /\ IdleBmi
    /\ IdleFoods
    /\ IdleOverlay
    /\ IdleCsv
    /\ op = "init"

LoadAdditionalRules ==
    /\ merges < MaxMerges
    /\ \E doc \in Overlays :
           /\ overlay' = doc
           /\ rules' = load_additional_rules(rules, doc)
           /\ same_merges' = IF merges > 0 /\ doc = overlay
                             THEN same_merges + 1 ELSE 1
    /\ merges' = merges + 1
    /\ op' = "load_additional_rules"
    /\ UNCHANGED <<user_profile, suggestions, explanations, ranked, limit,
                   writes, calls>>
    /\ UNCHANGED bmi_vars
    /\ UNCHANGED food_vars
    /\ UNCHANGED csv_file

NextOverlay == LoadAdditionalRules

SpecOverlay == InitOverlay /\ [][NextOverlay]_vars

(***************************************************************************)
(* Inference on records without usable weight and height                   *)
(***************************************************************************)
\* Weights and heights that give no BMI band by the front ends' rules:
\* None, zero, a negative number, a str that is no number, nan.
BadNumbers == {NoneNum, Num(0), Num(-5), Text, NaN}

\* Records without weight status in which weight or height is missing or
\* one of BadNumbers.
MalformedProfiles ==
    {hc @@ ws @@ dp @@ wh[1] @@ wh[2] :
        hc \in Field("health_condition", {"Diabetic", "Keto"}),
        ws \in Field("weight_status", {None, ""}),
        dp \in {("diet_preference" :> v) : v \in {None, "Vegetarian"}},
        wh \in (Field("weight_kg", BadNumbers \cup {Num(81)})
                   \X Field("height_cm", BadNumbers \cup {Num(180)}))
               \ {<<("weight_kg" :> Num(81)), ("height_cm" :> Num(180))>>}}

InitMalformed ==
    /\ user_profile \in MalformedProfiles
    /\ rules = rules_builtin
    /\ suggestions = <<>>
    /\ explanations = <<>>
    /\ ranked = <<>>
    /\ limit = NoneNum
    /\ writes = 0
    /\ calls = 0
    /\ op = "init"
    /\ IdleBmi
    /\ IdleFoods
    /\ IdleOverlay
    /\ IdleCsv

SpecMalformed == InitMalformed /\ [][Next]_vars

(***************************************************************************)
(* Food catalog loader (knowledge_base.load_foods_csv)                     *)
(***************************************************************************)
\* Data rows of one file.
MaxRows == 2

\* The str whose code points are cs.
StringOf(cs) == CHOOSE s \in DOMAIN CodePoints : CodePoints[s] = cs

\* row.get(col) on the dict csv.DictReader makes of one line: the cell
\* under the header that is col, character for character; None when no
\* header is col or the line ends before that column.
RowGet(header, cells, col) ==
    LET at == {i \in DOMAIN header : header[i] = col}
    IN  IF at = {} \/ MaxOf(at) > Len(cells) THEN None
        ELSE cells[MaxOf(at)]

TrueWords == {"1", "true", "yes", "y"}

\* Line 130; str(None) is "None".
to_bool(val) ==
    \E t \in TrueWords : Lower(Strip(CodePoints[val])) = CodePoints[t]

\* val or ""
OrEmpty(val) == IF TruthyStr(val) THEN val ELSE ""

\* Lines 131-137: the food record of one line.
FoodOfRow(header, cells) ==
    [name |->
        StringOf(Strip(CodePoints[OrEmpty(RowGet(header, cells, "name"))])),
     vegetarian |-> to_bool(RowGet(header, cells, "vegetarian")),
     diabetic_friendly |-> to_bool(RowGet(header, cells, "diabetic_friendly")),
     hypertension_friendly |->
        to_bool(RowGet(header, cells, "hypertension_friendly")),
     weight_goal |->
        StringOf(Lower(Strip(
            CodePoints[OrEmpty(RowGet(header, cells, "weight_goal"))])))]

\* The lines csv.DictReader yields: it passes over blank lines.
RECURSIVE DataRows(_)
DataRows(rows) ==
    IF rows = <<>> THEN <<>>
    ELSE IF Head(rows) = <<>> THEN DataRows(Tail(rows))
    ELSE <<Head(rows)>> \o DataRows(Tail(rows))

\* load_foods_csv: [] without a file, else one record per data line.
load_foods_csv(file) ==
    IF ~file.exists THEN <<>>
    ELSE LET rows == DataRows(file.rows)
         IN  [i \in 1 .. Len(rows) |-> FoodOfRow(file.header, rows[i])]

\* Header lines: as documented, capitalised, only "Name" capitalised, and
\* each with an unknown column "brand" in front.
Headers ==
    { <<"name", "vegetarian", "diabetic_friendly", "hypertension_friendly",
        "weight_goal">>,
      <<"Name", "Vegetarian", "Diabetic_Friendly", "Hypertension_Friendly",
        "Weight_Goal">>,
      <<"Name", "vegetarian", "diabetic_friendly", "hypertension_friendly",
        "weight_goal">> }

\* Data lines under a five-column header; the last one stops after the
\* name, and <<>> is a blank line.
RowPool ==
    { <<" Dal ", "true", "0", "YES", "Loss ">>,
      <<"soda", "no", "1", "", "gain">>,
      <<"", "Y", "true", "true", "">>,
      <<"Dal">>,
      <<>> }

WithBrand(cells) == IF cells = <<>> THEN cells ELSE <<"Acme">> \o cells

CsvFiles ==
    {MissingFile}
    \cup {[exists |-> TRUE, header |-> h, rows |-> rs] :
             h \in Headers, rs \in SeqsUpTo(RowPool, MaxRows)}
    \cup {[exists |-> TRUE, header |-> <<"brand">> \o h,
           rows |-> [i \in DOMAIN rs |-> WithBrand(rs[i])]] :
             h \in Headers, rs \in SeqsUpTo(RowPool, MaxRows)}

InitCsv ==
    /\ csv_file \in CsvFiles
    /\ IdleInference
    /\ IdleBmi
    /\ IdleFoods
    /\ IdleOverlay
    /\ op = "init"

\* _get_foods_dataset: the first use of the catalog loads the file.
LoadFoodsCsv ==
    /\ op = "init"
    /\ foods_dataset' = load_foods_csv(csv_file)
    /\ op' = "load_foods_csv"
    /\ UNCHANGED <<max_items, recommended, csv_file>>
    /\ UNCHANGED inference_vars
    /\ UNCHANGED bmi_vars
    /\ UNCHANGED overlay_vars

NextCsv == LoadFoodsCsv

SpecCsv == InitCsv /\ [][NextCsv]_vars

(***************************************************************************)
(* Properties of inference and ranking (checked under Spec)                *)
(***************************************************************************)
CategoryFields == {"health_condition", "weight_status", "diet_preference"}

\* C1: after infer_diet_with_explanations, for each of the three category
\* values on the record (weight status as it is after the BMI inference)
\* that is a key of the rule catalog, every suggestion of that category's
\* rule list is among the returned suggestions and has the category label in
\* its explanation; a suggestion of two applied categories has both labels.
C1_RulesAppliedWithLabels ==
    op = "infer_diet_with_explanations" =>
        \A k \in CategoryFields \cap DOMAIN user_profile :
            LET c == user_profile[k]
            IN  c \in DOMAIN rules =>
                    \A i \in DOMAIN rules[c] :
                        /\ rules[c][i] \in Range(suggestions)
                        /\ rules[c][i] \in DOMAIN explanations
                        /\ c \in Range(explanations[rules[c][i]])

\* A BMI-inferred record whose shared suggestion carries both of its labels.
C1_Witness ==
    /\ op = "infer_diet_with_explanations"
    /\ writes = 1
    /\ user_profile["weight_status"] = "Underweight"
    /\ "health_condition" \in DOMAIN user_profile
    /\ user_profile["health_condition"] = "Diabetic"
    /\ user_profile["diet_preference"] = "Vegetarian"
    /\ explanations["Eat more vegetables"] = <<"Diabetic", "Vegetarian">>
    /\ "Underweight" \in Range(explanations["Frequent meals"])

\* The score the ranking is specified with: the largest CATEGORY_PRIORITY
\* among the explanation categories of s, 0 for a category without priority
\* and for a suggestion without explanation.
SpecScore(s) ==
    IF s \notin DOMAIN explanations THEN 0
    ELSE LET ps == {IF c \in DOMAIN CATEGORY_PRIORITY
                    THEN CATEGORY_PRIORITY[c] ELSE 0 :
                        c \in Range(explanations[s])}
         IN  IF ps = {} THEN 0 ELSE CHOOSE p \in ps : \A q \in ps : q <= p

\* s comes before t in the full order: higher score, or equal score and
\* smaller text.
RanksBefore(s, t) ==
    \/ SpecScore(s) > SpecScore(t)
    \/ SpecScore(s) = SpecScore(t) /\ StrLess(s, t)

\* ranked is the first n entries of the full order of suggestions.
IsFirstOfFullOrder(n) ==
    /\ Len(ranked) = n
    /\ Range(ranked) \subseteq Range(suggestions)
    /\ \A i, j \in 1 .. Len(ranked) :
           i < j => RanksBefore(ranked[i], ranked[j])
    /\ \A s \in Range(suggestions) \ Range(ranked) :
           \A i \in 1 .. Len(ranked) : RanksBefore(ranked[i], s)

Min(a, b) == IF a < b THEN a ELSE b

\* C2: rank_suggestions returns the suggestions by descending score and
\* ascending text; for every integer limit the result is exactly the first
\* limit entries of that order (none for a limit below 1), and without a
\* limit the whole order.
C2_FirstLimitOfFullOrder ==
    op = "rank_suggestions" =>
        IF IsNum(limit)
        THEN IsFirstOfFullOrder(
                 IF limit[2] < 0 THEN 0
                 ELSE Min(limit[2], Len(suggestions)))
        ELSE IsFirstOfFullOrder(Len(suggestions))

\* The part of C2 the code does satisfy: limits that are not negative.
RankNonNegativeLimit ==
    (op = "rank_suggestions" /\ (IsNum(limit) => limit[2] >= 0))
        => C2_FirstLimitOfFullOrder

\* A limit of -1 returns all but the last suggestion.
RankNegativeLimitReached ==
    /\ op = "rank_suggestions"
    /\ limit = Num(-1)
    /\ Len(suggestions) > 1
    /\ Len(ranked) = Len(suggestions) - 1

\* The weight status the record's weight and height stand for.
SpecBand(b) ==
    IF b < 1850 THEN "Underweight"
    ELSE IF b < 2500 THEN "Normal" ELSE "Overweight"

\* b, in hundredths, is weight / (height / 100)^2 rounded to one decimal.
IsRoundedBmi(b, w, h) ==
    /\ b % 10 = 0
    /\ b * h * h - 1000000 * w <= 5 * h * h
    /\ 1000000 * w - b * h * h <= 5 * h * h

BmiInferenceApplies(up) ==
    /\ ~TruthyStr(Get(up, "weight_status", None))
    /\ "weight_kg" \in DOMAIN up /\ up["weight_kg"][2] > 0
    /\ "height_cm" \in DOMAIN up /\ up["height_cm"][2] > 0

C4_Step ==
    (calls' = calls + 1 /\ BmiInferenceApplies(user_profile)) =>
        /\ DOMAIN user_profile' = DOMAIN user_profile \cup {"weight_status", "bmi"}
        /\ IsNum(user_profile'["bmi"])
        /\ IsRoundedBmi(user_profile'["bmi"][2],
                        user_profile["weight_kg"][2],
                        user_profile["height_cm"][2])
        /\ user_profile'["weight_status"] = SpecBand(user_profile'["bmi"][2])
        /\ Range(rules[user_profile'["weight_status"]])
               \subseteq Range(suggestions')
        /\ (user_profile["weight_kg"] = Num(50)
                /\ user_profile["height_cm"] = Num(180))
            => (user_profile'["bmi"] = Num(1540)
                /\ user_profile'["weight_status"] = "Underweight")

\* C4: an inference call on a record without weight status and with positive
\* weight and height leaves bmi = weight / (height/100)^2 rounded to one
\* decimal and weightStatus = the classification of that bmi on the record,
\* and applies that weight status's rules in the same call; weight 50 and
\* height 180 give bmi 15.4 and "Underweight".
C4_BmiBackFill == [][C4_Step]_vars

\* The record of weight 50 and height 180 after its one inference call.
C4_Witness ==
    /\ calls = 1
    /\ writes = 1
    /\ user_profile["weight_kg"] = Num(50)
    /\ user_profile["height_cm"] = Num(180)
    /\ user_profile["bmi"] = Num(1540)
    /\ user_profile["weight_status"] = "Underweight"
    /\ "High protein diet" \in Range(suggestions)

C5_Step ==
    /\ TruthyStr(Get(user_profile, "weight_status", None)) =>
           /\ Get(user_profile', "weight_status", None)
                  = Get(user_profile, "weight_status", None)
           /\ ("bmi" \in DOMAIN user_profile') = ("bmi" \in DOMAIN user_profile)
           /\ Get(user_profile', "bmi", NoneNum)
                  = Get(user_profile, "bmi", NoneNum)
    /\ writes' <= 1

\* C5: over any sequence of infer_diet and infer_diet_with_explanations
\* calls on one record, once weightStatus has a value (given by the caller
\* or written by an earlier BMI inference) no step changes weightStatus or
\* bmi, whatever weight and height would classify to; inference writes the
\* record at most once.
C5_WeightStatusWrittenOnce == [][C5_Step]_vars

\* A second call on a record the first call wrote to.
C5_Witness ==
    /\ calls = 2
    /\ writes = 1
    /\ IsNum(user_profile["bmi"])

\* s is above t in the ranked output: both are in it, s first.
Above(s, t) ==
    \E i, j \in 1 .. Len(ranked) :
        i < j /\ ranked[i] = s /\ ranked[j] = t

\* The ranked output of the end-to-end example record, ranked with the
\* explanations of its inference.
ExampleRanked ==
    /\ op = "rank_suggestions"
    /\ explanations # <<>>
    /\ Get(user_profile, "health_condition", None) = "Diabetic"
    /\ user_profile["weight_status"] = "Overweight"
    /\ user_profile["diet_preference"] = "Vegetarian"

ExampleSuggestions ==
    {"Avoid sugar", "Low-calorie diet", "Avoid meat"}
        \subseteq Range(suggestions)

\* C6 as stated: for the example record the unranked set contains the three
\* suggestions and, in the output ranked with the front end's limit 6,
\* "Avoid sugar" appears above "Avoid meat".
C6_Original ==
    (ExampleRanked /\ limit = Num(6)) =>
        ExampleSuggestions /\ Above("Avoid sugar", "Avoid meat")

\* C6, amended: for the example record the unranked set contains the three
\* suggestions; in the full ranked order "Avoid sugar" is first and "Avoid
\* meat" eleventh of thirteen; the output ranked with limit 6 starts with
\* "Avoid sugar" and has no "Avoid meat"; no limit puts "Avoid meat" above
\* "Avoid sugar".
C6_ExampleRanking ==
    ExampleRanked =>
        /\ ExampleSuggestions
        /\ ~Above("Avoid meat", "Avoid sugar")
        /\ ~IsNum(limit) =>
               /\ Len(ranked) = 13
               /\ ranked[1] = "Avoid sugar"
               /\ ranked[11] = "Avoid meat"
        /\ limit = Num(6) =>
               /\ Len(ranked) = 6
               /\ ranked[1] = "Avoid sugar"
               /\ "Avoid meat" \notin Range(ranked)

\* The example record ranked with the front end's limit.
C6_Witness ==
    /\ ExampleRanked
    /\ limit = Num(6)
    /\ ranked[1] = "Avoid sugar"
    /\ ranked[6] = "Avoid fried foods"

(***************************************************************************)
(* Properties of the BMI classifier (checked under SpecBmi)                *)
(***************************************************************************)
\* C3: infer_weight_status_from_bmi returns None for no BMI, "Underweight"
\* for every BMI < 18.5, "Normal" for 18.5 <= BMI < 25 and "Overweight" for
\* BMI >= 25; 18.5 is "Normal", 25.0 "Overweight" and 18.49 "Underweight".
C3_WeightStatusBands ==
    op = "infer_weight_status_from_bmi" =>
        /\ ~IsNum(arg_bmi) => ret_status = None
        /\ IsNum(arg_bmi) =>
               /\ arg_bmi[2] < 1850 => ret_status = "Underweight"
               /\ (1850 <= arg_bmi[2] /\ arg_bmi[2] < 2500)
                      => ret_status = "Normal"
               /\ arg_bmi[2] >= 2500 => ret_status = "Overweight"
        /\ arg_bmi = Num(1850) => ret_status = "Normal"
        /\ arg_bmi = Num(2500) => ret_status = "Overweight"
        /\ arg_bmi = Num(1849) => ret_status = "Underweight"

\* The call with a BMI of exactly 25.0.
C3_Witness ==
    /\ op = "infer_weight_status_from_bmi"
    /\ arg_bmi = Num(2500)
    /\ ret_status = "Overweight"

(***************************************************************************)
(* Properties of the food recommender (checked under SpecFoods)            *)
(***************************************************************************)
Recommended == op = "recommend_foods"

CatalogFoods == Range(foods_dataset)

\* The score as specified: the sum of the weights of the terms that apply.
SpecVegetarianMatch(f) ==
    Get(user_profile, "diet_preference", None) = "Vegetarian" /\ f.vegetarian

SpecConditionMatch(f) ==
    \/ Get(user_profile, "health_condition", None) = "Diabetic"
           /\ f.diabetic_friendly
    \/ Get(user_profile, "health_condition", None) = "Hypertension"
           /\ f.hypertension_friendly

SpecGoal ==
    CASE Get(user_profile, "weight_status", None) = "Overweight" -> "loss"
      [] Get(user_profile, "weight_status", None) = "Underweight" -> "gain"
      [] OTHER -> "maintain"

SpecGoalMatch(f) == f.weight_goal = SpecGoal

SpecFoodScore(f) ==
    LET terms == << <<SpecVegetarianMatch(f), 2>>,
                    <<SpecConditionMatch(f), 3>>,
                    <<SpecGoalMatch(f), 2>>,
                    <<f.name \in StapleNames, 3>>,
                    <<f.name \in BarcodeNames, -5>>,
                    <<f.name \in SizedNames, -2>> >>
        w(i) == IF terms[i][1] THEN terms[i][2] ELSE 0
    IN  w(1) + w(2) + w(3) + w(4) + w(5) + w(6)

SomePositive == \E f \in CatalogFoods : SpecFoodScore(f) > 0

\* The foods whose names may be emitted: those scoring > 0, or all of them
\* when none scores > 0.
Eligible ==
    IF SomePositive THEN {f \in CatalogFoods : SpecFoodScore(f) > 0}
    ELSE CatalogFoods

\* The best score of an eligible food of name n.
BestScore(n) ==
    LET ss == {SpecFoodScore(f) : f \in {g \in Eligible : g.name = n}}
    IN  CHOOSE x \in ss : \A y \in ss : y <= x

\* Two names are equal ignoring letter case.
EqualIgnoringCase(n, m) ==
    LET a == CodePoints[n]
        b == CodePoints[m]
        letter(c) == (65 <= c /\ c <= 90) \/ (97 <= c /\ c <= 122)
    IN  /\ Len(a) = Len(b)
        /\ \A i \in 1 .. Len(a) :
               \/ a[i] = b[i]
               \/ /\ letter(a[i]) /\ letter(b[i])
                  /\ (a[i] = b[i] + 32 \/ b[i] = a[i] + 32)

\* A food of score sc and name n comes before one of score tc and name m in
\* the score-sorted order.
SortsBefore(sc, n, tc, m) == sc > tc \/ (sc = tc /\ StrLess(n, m))

\* C7: for every record, catalog and integer maxItems (0 included) the list
\* recommend_foods returns has length <= maxItems.
C7_LengthAtMostMaxItems ==
    Recommended => Len(recommended) <= max_items

\* recommend_foods called with max_items = 0 returns one name.
C7_ZeroReturnsOne ==
    Recommended /\ max_items = 0 /\ Len(recommended) = 1

\* With max_items >= 1 the length bound holds.
LengthAtMostPositiveMaxItems ==
    (Recommended /\ max_items >= 1) => Len(recommended) <= max_items

\* C8: the list recommend_foods returns has no empty name and no two names
\* equal ignoring letter case; of catalog names that differ only in case
\* the one kept is the first in the score-sorted order.
C8_CaseInsensitiveDedupe ==
    Recommended =>
        /\ \A i \in 1 .. Len(recommended) : recommended[i] # ""
        /\ \A i, j \in 1 .. Len(recommended) :
               i # j => ~EqualIgnoringCase(recommended[i], recommended[j])
        /\ \A i \in 1 .. Len(recommended) :
               \A f \in Eligible :
                   (f.name # recommended[i]
                        /\ EqualIgnoringCase(f.name, recommended[i]))
                   => ~SortsBefore(SpecFoodScore(f), f.name,
                                   BestScore(recommended[i]), recommended[i])

\* A catalog with "Dal" and "dal", both eligible, of which "dal" has the
\* higher score and is the one kept.
C8_Witness ==
    /\ Recommended
    /\ max_items = DefaultMaxItems
    /\ {"Dal", "dal"} \subseteq {f.name : f \in Eligible}
    /\ recommended = <<"dal">>

\* C9 as stated: whenever some food scores > 0, a food named "123-456" is not
\* in the result, whatever its attributes.
C9_Original ==
    (Recommended /\ SomePositive) => "123-456" \notin Range(recommended)

\* C9, amended: whenever some food scores > 0, "123-456" is in the result
\* only if a food of that name matches the diet preference (+2), the health
\* condition (+3) and the weight goal (+2) at once, which is the one way it
\* scores > 0 (7 - 5 = 2); with any of the three missing it is excluded.
C9_BarcodeExcludedUnlessAllMatch ==
    (Recommended /\ SomePositive /\ "123-456" \in Range(recommended)) =>
        \E f \in CatalogFoods :
            /\ f.name = "123-456"
            /\ SpecVegetarianMatch(f)
            /\ SpecConditionMatch(f)
            /\ SpecGoalMatch(f)

\* A "123-456" that matches diet preference and health condition but not
\* the weight goal is left out while another food is recommended.
C9_Witness ==
    /\ Recommended
    /\ max_items = DefaultMaxItems
    /\ Len(foods_dataset) = 2
    /\ foods_dataset[1].name = "123-456"
    /\ SpecVegetarianMatch(foods_dataset[1])
    /\ SpecConditionMatch(foods_dataset[1])
    /\ ~SpecGoalMatch(foods_dataset[1])
    /\ recommended = <<foods_dataset[2].name>>

\* C10: recommend_foods emits names by descending score, ties ascending by
\* name, the score being the sum of the weights +2 vegetarian, +3 diabetic,
\* +3 hypertension, +2 weight goal (Overweight->loss, Underweight->gain,
\* else maintain), +3 staple keyword, -5 barcode-like, -2 size token; when
\* some food scores > 0 only such foods are emitted, and when none does the
\* names of all foods are, in the same order (each name once ignoring case,
\* empty names skipped, up to max_items names).
C10_ScoreOrderAndFallback ==
    Recommended =>
        /\ \A f \in CatalogFoods :
               FoodScore(user_profile, f) = SpecFoodScore(f)
        /\ \A i \in 1 .. Len(recommended) :
               \E f \in Eligible : f.name = recommended[i]
        /\ \A i, j \in 1 .. Len(recommended) :
               i < j => SortsBefore(BestScore(recommended[i]), recommended[i],
                                    BestScore(recommended[j]), recommended[j])
        /\ \A f \in Eligible :
               \/ f.name = ""
               \/ \E i \in 1 .. Len(recommended) :
                      EqualIgnoringCase(f.name, recommended[i])
               \/ /\ Len(recommended) >= max_items
                  /\ \A i \in 1 .. Len(recommended) :
                         SortsBefore(BestScore(recommended[i]), recommended[i],
                                     SpecFoodScore(f), f.name)

\* No food scores > 0 and the names of both foods are emitted, the better
\* score first.
C10_Witness ==
    /\ Recommended
    /\ max_items = DefaultMaxItems
    /\ ~SomePositive
    /\ Len(foods_dataset) = 2
    /\ Len(recommended) = 2
    /\ BestScore(recommended[1]) > BestScore(recommended[2])
    /\ BestScore(recommended[2]) < 0

(***************************************************************************)
(* Properties of the rule overlay (checked under SpecOverlay)              *)
(***************************************************************************)
\* An overlay that maps categories to lists of strings.
ValidValue(v) == v.list /\ \A e \in Range(v.elems) : e[1] = "str"

ValidOverlay(doc) ==
    /\ doc.kind = "dict"
    /\ \A i \in DOMAIN doc.items : ValidValue(doc.items[i][2])

NoDuplicates(xs) == \A i, j \in DOMAIN xs : xs[i] = xs[j] => i = j

Merged == merges' = merges + 1

C11_Step ==
    (Merged /\ ValidOverlay(overlay')) =>
        /\ \A k \in DOMAIN rules :
               /\ k \in DOMAIN rules'
               /\ Range(rules[k]) \subseteq Range(rules'[k])
        /\ \A k \in DOMAIN rules' : NoDuplicates(rules'[k])
        /\ same_merges' >= 2 => rules' = rules

\* C11: a merge of an overlay that maps categories to lists of strings
\* removes no category and no suggestion of any category, leaves every
\* category's list without duplicates, and merging the same overlay again
\* leaves the catalog as the first merge left it.
C11_MergeMonotoneIdempotent == [][C11_Step]_vars

\* The catalog after the same two-key overlay was merged twice: the new
\* suggestion is in "Diabetic" once, and "Keto" is a new category.
C11_Witness ==
    /\ same_merges = 2
    /\ overlay = [kind |-> "dict",
                  items |-> <<<<"Diabetic", ValidList>>,
                              <<"Keto", ValidList>>>>]
    /\ Len(rules["Diabetic"]) = Len(rules_builtin["Diabetic"]) + 1
    /\ "Add fiber" \in Range(rules["Diabetic"])
    /\ rules["Keto"] = <<"Add fiber", "Avoid sugar">>

\* What the claim of per-key skipping says of one overlay entry.
EntryHandledOnItsOwn(key, value) ==
    IF ValidValue(value)
    THEN /\ key \in DOMAIN rules'
         /\ {e[2] : e \in Range(value.elems)} \subseteq Range(rules'[key])
    ELSE /\ (key \in DOMAIN rules') = (key \in DOMAIN rules)
         /\ Get(rules', key, <<>>) = Get(rules, key, <<>>)

C12_Step ==
    Merged =>
        IF overlay'.kind = "dict"
        THEN \A i \in DOMAIN overlay'.items :
                 EntryHandledOnItsOwn(overlay'.items[i][1],
                                      overlay'.items[i][2])
        ELSE rules' = rules

\* C12: in a load_additional_rules call every overlay entry whose value is
\* a list of strings is merged and every entry of invalid shape (no list, or
\* a list with an element that is no string) leaves its category as it was,
\* whatever the order of the keys; an overlay that is absent or is no
\* mapping leaves the catalog unchanged.
C12_InvalidEntrySkippedPerKey == [][C12_Step]_vars

\* The same for overlays none of whose lists holds a non-string: an entry
\* that is no list is skipped on its own, and an absent, unreadable or
\* non-mapping overlay changes nothing.
NonListSkippedPerKey ==
    [][(\A i \in DOMAIN overlay'.items :
            overlay'.items[i][2] # ListWithObject) => C12_Step]_vars

\* An overlay whose first entry is a list holding a JSON object was handed
\* over and its second, valid entry is not in the catalog.
ValidEntryAfterInvalidListDropped ==
    ~(/\ merges = 1
      /\ overlay = [kind |-> "dict",
                    items |-> <<<<"Keto", ListWithObject>>,
                                <<"Diabetic", ValidList>>>>]
      /\ rules = rules_builtin)

(***************************************************************************)
(* Properties of inference on malformed input (checked under SpecMalformed)*)
(***************************************************************************)
\* A weight or height that is missing, zero, negative or no number.
NotUsable(x) == ~(IsNum(x) /\ x[2] > 0)

RecordWeight == Get(user_profile, "weight_kg", NoneNum)

RecordHeight == Get(user_profile, "height_cm", NoneNum)

RulesOf(c) == IF c \in DOMAIN rules THEN Range(rules[c]) ELSE {}

SoftFailure ==
    /\ compute_bmi(RecordWeight, RecordHeight) = NoneNum
    /\ user_profile' = user_profile
    /\ Range(suggestions')
           = RulesOf(Get(user_profile, "health_condition", "Normal"))
             \cup RulesOf(Get(user_profile, "diet_preference", None))

C13_Step ==
    (/\ calls' = calls + 1
     /\ ~TruthyStr(Get(user_profile, "weight_status", None))
     /\ NotUsable(RecordWeight) \/ NotUsable(RecordHeight))
    => SoftFailure

\* C13: an inference call on a record without weight status whose weight or
\* height is missing, zero, negative or non-numeric computes no BMI, leaves
\* the record unchanged (no weightStatus, no bmi written), applies no
\* weight-status rules and returns the suggestions of the health condition
\* and the diet preference.
C13_MalformedInputSoftFails == [][C13_Step]_vars

\* The same for weights and heights other than nan: missing, None, zero,
\* negative, and a str that float() rejects.
SoftFailsUnlessNaN ==
    [][(RecordWeight # NaN /\ RecordHeight # NaN) => C13_Step]_vars

\* A record of weight nan and height 180 has been given bmi nan and
\* weight status "Overweight", with the "Overweight" rules applied.
NaNClassifiedOverweight ==
    ~(/\ calls = 1
      /\ Get(user_profile, "weight_kg", NoneNum) = NaN
      /\ Get(user_profile, "height_cm", NoneNum) = Num(180)
      /\ Get(user_profile, "bmi", NoneNum) = NaN
      /\ Get(user_profile, "weight_status", None) = "Overweight"
      /\ "Low-calorie diet" \in Range(suggestions))

(***************************************************************************)
(* Properties of the food catalog loader (checked under SpecCsv)           *)
(***************************************************************************)
Loaded == op = "load_foods_csv"

\* The header line in lower case.
LowerHeader(file) ==
    [file EXCEPT !.header =
        [i \in DOMAIN file.header |->
            StringOf(Lower(CodePoints[file.header[i]]))]]

\* The file without its unknown first column, if it has one.
WithoutBrand(file) ==
    IF file.header # <<>> /\ file.header[1] = "brand"
    THEN [file EXCEPT !.header = Tail(file.header),
                      !.rows = [i \in DOMAIN file.rows |->
                                   IF file.rows[i] = <<>> THEN <<>>
                                   ELSE Tail(file.rows[i])]]
    ELSE file

\* C14: the catalog loaded from a file is the catalog loaded from the same
\* file with its column headers in lower case (header case does not
\* matter) and from the same file without its extra column; a missing file
\* loads to the empty catalog.
C14_HeaderCaseIgnored ==
    Loaded =>
        /\ foods_dataset = load_foods_csv(LowerHeader(csv_file))
        /\ foods_dataset = load_foods_csv(WithoutBrand(csv_file))
        /\ ~csv_file.exists => foods_dataset = <<>>

\* The same without the header-case part: extra columns are ignored and a
\* missing file loads to the empty catalog.
ExtraColumnIgnoredMissingFileEmpty ==
    Loaded =>
        /\ foods_dataset = load_foods_csv(WithoutBrand(csv_file))
        /\ ~csv_file.exists => foods_dataset = <<>>

\* With lower-case headers each line loads to the record its cells spell.
LowerCaseHeaderLoads ==
    (/\ Loaded
     /\ csv_file.exists
     /\ csv_file = LowerHeader(csv_file)
     /\ csv_file.rows = << <<" Dal ", "true", "0", "YES", "Loss ">> >>)
    => foods_dataset = <<Food("Dal", TRUE, FALSE, TRUE, "loss")>>

\* A file with the header "Name" has been loaded and its one line, named
\* " Dal ", has become a record without a name.
CapitalisedNameColumnLost ==
    ~(/\ Loaded
      /\ csv_file.exists
      /\ csv_file.header[1] = "Name"
      /\ csv_file.rows = << <<" Dal ", "true", "0", "YES", "Loss ">> >>
      /\ foods_dataset[1].name = "")

(***************************************************************************)
(* The health-condition fallback (checked under Spec)                      *)
(***************************************************************************)
\* The record carries no health condition value: the field is missing, or
\* it is there and is None or "".
NoHealthCondition ==
    ~TruthyStr(Get(user_profile, "health_condition", None))

HealthConditionMissing == "health_condition" \notin DOMAIN user_profile

\* The condition inference is to work with when the record has none.
ConditionOrNormal ==
    IF NoHealthCondition THEN "Normal" ELSE user_profile["health_condition"]

Inferred == op \in {"infer_diet", "infer_diet_with_explanations"}

\* The suggestions are those of the condition (or of "Normal"), of the
\* record's weight status and of its diet preference, a None or "" there
\* adding nothing; and the "Normal" rules carry the label "Normal".
FallbackApplied ==
    /\ Range(suggestions)
           = RulesOf(ConditionOrNormal)
             \cup RulesOf(Get(user_profile, "weight_status", None))
             \cup RulesOf(Get(user_profile, "diet_preference", None))
    /\ (op = "infer_diet_with_explanations" /\ NoHealthCondition) =>
           \A s \in Range(rules["Normal"]) :
               "Normal" \in Range(explanations[s])

\* C15: after inference on a record without a health condition value (the
\* field missing, or present but None or empty) every "Normal" rule is in
\* the suggestions with "Normal" in its explanation; a missing diet
\* preference or weight status adds no suggestions and no default.
C15_NormalFallback == Inferred => FallbackApplied

\* The same when the fallback is asked for only where the field is missing
\* from the record.
FallbackWhenFieldMissing ==
    (Inferred /\ (NoHealthCondition => HealthConditionMissing))
        => FallbackApplied

\* Inference on a record whose health condition is None, with no weight
\* status and no diet preference, has returned no suggestions at all.
NoneConditionGetsNoRules ==
    ~(/\ op = "infer_diet_with_explanations"
      /\ "health_condition" \in DOMAIN user_profile
      /\ user_profile["health_condition"] = None
      /\ suggestions = <<>>)

=============================================================================
